---- MODULE Spec2Model ----
(***************************************************************************)
(* SpotifyWebApi (src/src/index.js): a client object holding an access     *)
(* token, one async method per Spotify Web API endpoint, and               *)
(* performRequest, which hands one request config to the HTTP transport    *)
(* (axios) and maps the settled promise to a return value or a throw.      *)
(*                                                                         *)
(* JavaScript values are tagged records: [t |-> kind, v |-> payload].      *)
(* Each caller is one async call chain on the same client object: an       *)
(* endpoint method runs synchronously up to the await inside               *)
(* performRequest (one step), then the transport settles the promise and   *)
(* the continuation returns or throws (one step).                          *)
(***************************************************************************)
EXTENDS Integers, Sequences, FiniteSets, TLC

VARIABLES
    given_token,   \* the argument the constructor was called with
    access_token,  \* this.access_token
    notice,        \* whether the constructor wrote its console.log notice
    pc,            \* per caller: "idle", "waiting" (at the await) or "done"
    method,        \* per caller: the endpoint method running
    args,          \* per caller: the arguments as the caller passed them
    config,        \* per caller: the request config handed to the transport
    sent,          \* per caller: transport invocations made by the current call
    delivered,     \* per caller: what the transport settled the promise with
    outcome        \* per caller: what the call returned or threw

vars == <<given_token, access_token, notice, pc, method, args, config, sent,
          delivered, outcome>>

(***************************************************************************)
(* JavaScript values                                                       *)
(***************************************************************************)
Undef == [t |-> "undefined"]

Null == [t |-> "null"]

Num(n) == [t |-> "num", v |-> n]

Str(s) == [t |-> "str", v |-> s]

Bool(b) == [t |-> "bool", v |-> b]

Arr(s) == [t |-> "arr", v |-> s]

Obj(f) == [t |-> "obj", v |-> f]

\* The TypeError the engine raises when a property of undefined or null is read.
TypeError == [t |-> "TypeError"]

\* A slot that holds nothing (no call running, nothing in flight).
None == [t |-> "none"]

\* Boolean(x): undefined, null, 0, "" and false are falsy, everything else truthy.
Truthy(x) ==
    CASE x.t = "undefined" -> FALSE
      [] x.t = "null" -> FALSE
      [] x.t = "num" -> x.v # 0
      [] x.t = "str" -> x.v # ""
      [] x.t = "bool" -> x.v
      [] OTHER -> TRUE

\* a || b
Or(a, b) == IF Truthy(a) THEN a ELSE b

Nullish(x) == x.t \in {"undefined", "null"}

\* x.k for a value that is not undefined or null: a missing property reads as
\* undefined; strings, numbers and booleans have no such own property.
Prop(x, k) == IF x.t = "obj" /\ k \in DOMAIN x.v THEN x.v[k] ELSE Undef

RECURSIVE ToStr(_)
RECURSIVE Join(_, _)

\* String(x), as template literals, "+" on a string and Array.prototype.join
\* apply it; an array converts by joining its elements with ",".
ToStr(x) ==
    CASE x.t = "undefined" -> "undefined"
      [] x.t = "null" -> "null"
      [] x.t = "num" -> ToString(x.v)
      [] x.t = "str" -> x.v
      [] x.t = "bool" -> (IF x.v THEN "true" ELSE "false")
      [] x.t = "arr" -> Join(x.v, ",")
      [] OTHER -> "[object Object]"

\* Array.prototype.join over the elements s: undefined and null elements
\* convert to the empty string.
Join(s, sep) ==
    IF s = <<>> THEN ""
    ELSE LET h == IF Nullish(Head(s)) THEN "" ELSE ToStr(Head(s))
         IN IF Len(s) = 1 THEN h ELSE h \o sep \o Join(Tail(s), sep)

\* Variant: a filter that drops only undefined and null.
RECURSIVE FilterDefined(_)
FilterDefined(s) ==
    IF s = <<>> THEN <<>>
    ELSE IF ~Nullish(Head(s)) THEN <<Head(s)>> \o FilterDefined(Tail(s))
         ELSE FilterDefined(Tail(s))

\* Array.prototype.filter(Boolean)
RECURSIVE FilterBoolean(_)
FilterBoolean(s) ==
    IF s = <<>> THEN <<>>
    ELSE IF Truthy(Head(s)) THEN <<Head(s)>> \o FilterBoolean(Tail(s))
         ELSE FilterBoolean(Tail(s))

\* Variant: a join that loses the last element of an array.
JoinParamDropLast(x) ==
    IF x.t = "arr" /\ Len(x.v) > 1
    THEN Str(Join(SubSeq(x.v, 1, Len(x.v) - 1), ","))
    ELSE Str(Join(FilterBoolean(<<x>>), ","))

\* [x].filter(Boolean).join(",")
JoinParam(x) == Str(Join(FilterBoolean(<<x>>), ","))

\* Variant: a default taken with ||, which also replaces 0, "" and false.
DefaultWhenFalsy(a, d) == IF Truthy(a) THEN a ELSE d

\* A default parameter (p = d): the default applies to undefined only.
Default(a, d) == IF a = Undef THEN d ELSE a

\* querystring.escape over the characters of a string: characters outside the
\* unreserved set are percent-encoded.
Unreserved == {"a", "b", "c", "0", "1", "-", "_", ".", "!", "~", "*", "'", "(", ")"}

\* The UTF-8 percent code of the reserved characters the model draws from.
PercentCode(ch) ==
    CASE ch = " " -> "%20"
      [] ch = "&" -> "%26"
      [] ch = "%" -> "%25"
      [] ch = "," -> "%2C"

RECURSIVE qs_escape(_)
qs_escape(cs) ==
    IF cs = <<>> THEN ""
    ELSE (IF Head(cs) \in Unreserved THEN Head(cs) ELSE PercentCode(Head(cs)))
         \o qs_escape(Tail(cs))

\* The string whose characters are cs.
RECURSIVE Text(_)
Text(cs) == IF cs = <<>> THEN "" ELSE Head(cs) \o Text(Tail(cs))

(***************************************************************************)
(* constructor                                                             *)
(***************************************************************************)
Callers == {1, 2}

\* Variant: the argument stored as it is.
StoredAsGiven(tok) == tok

\* access_token || null
Stored(tok) == Or(tok, Null)

TokenArgs == {Undef, Str(""), Str("tokA")}

Construct(tok) ==
    /\ given_token = tok
    /\ access_token = Stored(tok)
    /\ notice = ~Truthy(Stored(tok))
    /\ pc = [c \in Callers |-> "idle"]
    /\ method = [c \in Callers |-> None]
    /\ args = [c \in Callers |-> None]
    /\ config = [c \in Callers |-> None]
    /\ sent = [c \in Callers |-> 0]
    /\ delivered = [c \in Callers |-> None]
    /\ outcome = [c \in Callers |-> None]

Init == \E tok \in TokenArgs : Construct(tok)

(***************************************************************************)
(* performRequest                                                          *)
(***************************************************************************)
\* options.k: undefined when the method body did not set it.
Options(o, k) == IF k \in DOMAIN o THEN o[k] ELSE Undef

\* Variant: the Authorization header without its "Bearer " prefix.
AxiosConfigBareToken(options) ==
    [baseURL |-> Str("https://api.spotify.com/v1"),
     headers |-> [Authorization |-> Str(ToStr(access_token))],
     reponseType |-> Str("json"),
     url |-> Options(options, "url"),
     method |-> Or(Options(options, "method"), Str("GET")),
     params |-> Or(Options(options, "params"), Null),
     data |-> Or(Options(options, "data"), Null)]

\* The config object handed to axios.
AxiosConfig(options) ==
    [baseURL |-> Str("https://api.spotify.com/v1"),
     headers |-> [Authorization |-> Str("Bearer " \o ToStr(access_token))],
     reponseType |-> Str("json"),
     url |-> Options(options, "url"),
     method |-> Or(Options(options, "method"), Str("GET")),
     params |-> Or(Options(options, "params"), Null),
     data |-> Or(Options(options, "data"), Null)]

\* Variant: the config kept in one place shared by the calls in flight, so
\* that a new call replaces the request of a call still waiting.
performRequestShared(c, options) ==
    /\ config' = [x \in Callers |->
                     IF x = c \/ pc[x] = "waiting" THEN AxiosConfig(options)
                     ELSE config[x]]
    /\ sent' = [sent EXCEPT ![c] = 1]
    /\ pc' = [pc EXCEPT ![c] = "waiting"]
    /\ delivered' = [delivered EXCEPT ![c] = None]
    /\ outcome' = [outcome EXCEPT ![c] = None]
    /\ UNCHANGED <<given_token, access_token, notice>>

\* performRequest up to its await: the one call of axios.
performRequest(c, options) ==
    /\ config' = [config EXCEPT ![c] = AxiosConfig(options)]
    /\ sent' = [sent EXCEPT ![c] = 1]
    /\ pc' = [pc EXCEPT ![c] = "waiting"]
    /\ delivered' = [delivered EXCEPT ![c] = None]
    /\ outcome' = [outcome EXCEPT ![c] = None]
    /\ UNCHANGED <<given_token, access_token, notice>>

\* Variant: a call refused when the client holds no token.
InvokeWithToken(c, m, a, options) ==
    /\ Truthy(access_token)
    /\ method' = [method EXCEPT ![c] = m]
    /\ args' = [args EXCEPT ![c] = a]
    /\ performRequest(c, options)

\* Endpoint method m runs with arguments a: its body builds options and
\* delegates to performRequest. A caller starts a call when it awaits none.
Invoke(c, m, a, options) ==
    /\ method' = [method EXCEPT ![c] = m]
    /\ args' = [args EXCEPT ![c] = a]
    /\ performRequest(c, options)

\* Variant: the whole response body thrown instead of its error field.
ThrownData(e) ==
    IF Nullish(Prop(e, "response")) THEN TypeError
    ELSE Prop(Prop(e, "response"), "data")

\* The value the catch block throws for the rejection e:
\* e.response.data.error, its evaluation raising a TypeError at undefined or null.
Thrown(e) ==
    IF Nullish(Prop(e, "response")) THEN TypeError
    ELSE IF Nullish(Prop(Prop(e, "response"), "data")) THEN TypeError
    ELSE Prop(Prop(Prop(e, "response"), "data"), "error")

\* Variant: only the body of the response returned.
ReturnedBody(data) == Prop(data, "data")

\* The value returned for the response the awaited promise resolved with.
Returned(data) == data

\* The await ends: the transport settled the promise with d, the call ends
\* with o, and its request is no longer in flight.
Settle(c, d, o) ==
    /\ pc' = [pc EXCEPT ![c] = "done"]
    /\ delivered' = [delivered EXCEPT ![c] = d]
    /\ outcome' = [outcome EXCEPT ![c] = o]
    /\ method' = [method EXCEPT ![c] = None]
    /\ args' = [args EXCEPT ![c] = None]
    /\ config' = [config EXCEPT ![c] = None]
    /\ UNCHANGED <<given_token, access_token, notice, sent>>

(***************************************************************************)
(* The transport: what axios may settle a request's promise with           *)
(***************************************************************************)
E1 == Obj([status |-> Num(404), message |-> Str("not found")])

E2 == Obj([status |-> Num(401), message |-> Str("The access token expired")])

Responses ==
    {Obj([status |-> Num(200), data |-> Obj([id |-> Str("abc")])]),
     Obj([status |-> Num(204), data |-> Str("")])}

\* A rejection that carries the response of a non-2xx status with body d.
HttpError(d) ==
    Obj([message |-> Str("Request failed"),
         response |-> Obj([status |-> Num(400), data |-> d])])

\* A rejection without a response: the request never got an answer.
NetworkError == Obj([message |-> Str("Network Error")])

Envelopes == {Obj([error |-> E1]), Obj([error |-> E2])}

\* Bodies of an error response that hold no error envelope.
Malformed == {Obj([message |-> Str("oops")]), Str("Bad Gateway"), Null}

Rejections ==
    {HttpError(d) : d \in Envelopes \cup Malformed} \cup {NetworkError}

\* The transport resolves the request of caller c with response r.
AxiosResolve(c, r) ==
    /\ pc[c] = "waiting"
    /\ Settle(c, [kind |-> "resolve", value |-> r],
              [kind |-> "return", value |-> Returned(r)])

\* Variant: a rejected request is issued once more.
AxiosRejectRetry(c, e) ==
    /\ pc[c] = "waiting"
    /\ sent[c] < 2
    /\ sent' = [sent EXCEPT ![c] = @ + 1]
    /\ UNCHANGED <<given_token, access_token, notice, pc, method, args, config,
                   delivered, outcome>>

\* The transport rejects the request of caller c with e.
AxiosReject(c, e) ==
    /\ pc[c] = "waiting"
    /\ Settle(c, [kind |-> "reject", value |-> e],
              [kind |-> "throw", value |-> Thrown(e)])

(***************************************************************************)
(* Browse API                                                              *)
(***************************************************************************)
getCategories(c, country, locale, limit, offset) ==
    /\ pc[c] # "waiting"
    /\ Invoke(c, "getCategories",
           [country |-> country, locale |-> locale, limit |-> limit, offset |-> offset],
           [url |-> Str("/browse/categories"),
            params |-> Obj([country |-> country,
                            locale |-> locale,
                            limit |-> Default(limit, Num(20)),
                            offset |-> Default(offset, Num(0))])])

getCategory(c, category_id, country, locale) ==
    /\ pc[c] # "waiting"
    /\ Invoke(c, "getCategory",
           [category_id |-> category_id, country |-> country, locale |-> locale],
           [url |-> Str("/browse/categories/" \o ToStr(category_id)),
            params |-> Obj([country |-> country, locale |-> locale])])

getCategoryPlaylist(c, category_id, country, limit, offset) ==
    /\ pc[c] # "waiting"
    /\ Invoke(c, "getCategoryPlaylist",
           [category_id |-> category_id, country |-> country, limit |-> limit,
            offset |-> offset],
           [url |-> Str("/browse/categories/" \o ToStr(category_id) \o "/playlists"),
            params |-> Obj([country |-> country,
                            limit |-> Default(limit, Num(20)),
                            offset |-> Default(offset, Num(0))])])

\* Variant: every group written under the min_ prefix.
FlattenAllAsMin(p, prefix, o) ==
    [x \in DOMAIN p \cup {"min_" \o k : k \in DOMAIN o} |->
        IF \E k \in DOMAIN o : x = "min_" \o k
        THEN o[CHOOSE k \in DOMAIN o : x = "min_" \o k]
        ELSE p[x]]

\* for (const [key, value] of Object.entries(o)) p[`${prefix}${key}`] = value
Flatten(p, prefix, o) ==
    [x \in DOMAIN p \cup {prefix \o k : k \in DOMAIN o} |->
        IF \E k \in DOMAIN o : x = prefix \o k
        THEN o[CHOOSE k \in DOMAIN o : x = prefix \o k]
        ELSE p[x]]

\* options.params of getRecommendations after its three loops.
RecommendationParams(seed_artists, seed_genres, seed_tracks, limit, market, min_, max_, target_) ==
    LET base == [seed_artists |-> JoinParam(Default(seed_artists, Arr(<<>>))),
                 seed_genres |-> JoinParam(Default(seed_genres, Arr(<<>>))),
                 seed_tracks |-> JoinParam(Default(seed_tracks, Arr(<<>>))),
                 limit |-> Default(limit, Num(20)),
                 market |-> market]
        p1 == Flatten(base, "min_", Default(min_, Obj(<<>>)).v)
        p2 == Flatten(p1, "max_", Default(max_, Obj(<<>>)).v)
    IN Flatten(p2, "target_", Default(target_, Obj(<<>>)).v)

getRecommendations(c, seed_artists, seed_genres, seed_tracks, limit, market, min_, max_, target_) ==
    /\ pc[c] # "waiting"
    /\ Invoke(c, "getRecommendations",
           [seed_artists |-> seed_artists, seed_genres |-> seed_genres,
            seed_tracks |-> seed_tracks, limit |-> limit, market |-> market,
            min_ |-> min_, max_ |-> max_, target_ |-> target_],
           [url |-> Str("/recommendations"),
            params |-> Obj(RecommendationParams(seed_artists, seed_genres, seed_tracks,
                                                limit, market, min_, max_, target_))])

getRecommendationGenres(c) ==
    /\ pc[c] # "waiting"
    /\ Invoke(c, "getRecommendationGenres", <<>>,
           [url |-> Str("/recommendations/available-genre-seeds")])

getNewReleases(c, country, limit, offset) ==
    /\ pc[c] # "waiting"
    /\ Invoke(c, "getNewReleases",
           [country |-> country, limit |-> limit, offset |-> offset],
           [url |-> Str("/browse/new-releases"),
            params |-> Obj([country |-> country,
                            limit |-> Default(limit, Num(20)),
                            offset |-> Default(offset, Num(0))])])

getFeaturedPlaylists(c, country, locale, timestamp, limit, offset) ==
    /\ pc[c] # "waiting"
    /\ Invoke(c, "getFeaturedPlaylists",
           [country |-> country, locale |-> locale, timestamp |-> timestamp,
            limit |-> limit, offset |-> offset],
           [url |-> Str("/browse/featured-playlists"),
            params |-> Obj([country |-> country,
                            locale |-> locale,
                            timestamp |-> timestamp,
                            limit |-> Default(limit, Num(20)),
                            offset |-> Default(offset, Num(0))])])

(***************************************************************************)
(* Artists API                                                             *)
(***************************************************************************)
getArtists(c, ids) ==
    /\ pc[c] # "waiting"
    /\ Invoke(c, "getArtists", [ids |-> ids],
           [url |-> Str("/artists"),
            params |-> Obj([ids |-> JoinParam(Default(ids, Arr(<<>>)))])])

getArtist(c, id) ==
    /\ pc[c] # "waiting"
    /\ Invoke(c, "getArtist", [id |-> id],
           [url |-> Str("/artists/" \o ToStr(id))])

getArtistsAlbums(c, id, include_groups, market, limit, offset) ==
    /\ pc[c] # "waiting"
    /\ Invoke(c, "getArtistsAlbums",
           [id |-> id, include_groups |-> include_groups, market |-> market,
            limit |-> limit, offset |-> offset],
           [url |-> Str("/artists/" \o ToStr(id) \o "/albums"),
            params |-> Obj([include_groups |->
                                JoinParam(Default(include_groups,
                                                  Arr(<<Str("single"), Str("appears_on")>>))),
                            market |-> market,
                            limit |-> Default(limit, Num(20)),
                            offset |-> Default(offset, Num(0))])])

getArtistsTopTracks(c, id, market) ==
    /\ pc[c] # "waiting"
    /\ Invoke(c, "getArtistsTopTracks", [id |-> id, market |-> market],
           [url |-> Str("/artists/" \o ToStr(id) \o "/top-tracks"),
            params |-> Obj([market |-> market])])

getRelatedArtists(c, id) ==
    /\ pc[c] # "waiting"
    /\ Invoke(c, "getRelatedArtists", [id |-> id],
           [url |-> Str("/artists/" \o ToStr(id) \o "/related-artists")])

(***************************************************************************)
(* Player API                                                              *)
(***************************************************************************)
getCurrentPlaying(c, market) ==
    /\ pc[c] # "waiting"
    /\ Invoke(c, "getCurrentPlaying", [market |-> market],
           [url |-> Str("/me/player/currently-playing"),
            params |-> Obj([market |-> market])])

\* Variant: setVolume without its verb.
setVolumeNoVerb(c, volume_percent, device_id) ==
    /\ pc[c] # "waiting"
    /\ Invoke(c, "setVolume",
           [volume_percent |-> volume_percent, device_id |-> device_id],
           [url |-> Str("/me/player/volume"),
            params |-> Obj([volume_percent |-> Default(volume_percent, Num(50)),
                            device_id |-> device_id])])

setVolume(c, volume_percent, device_id) ==
    /\ pc[c] # "waiting"
    /\ Invoke(c, "setVolume",
           [volume_percent |-> volume_percent, device_id |-> device_id],
           [url |-> Str("/me/player/volume"),
            method |-> Str("PUT"),
            params |-> Obj([volume_percent |-> Default(volume_percent, Num(50)),
                            device_id |-> device_id])])

getPlaybackInfo(c, market) ==
    /\ pc[c] # "waiting"
    /\ Invoke(c, "getPlaybackInfo", [market |-> market],
           [url |-> Str("/me/player"),
            params |-> Obj([market |-> market])])

skipPrevious(c, device_id) ==
    /\ pc[c] # "waiting"
    /\ Invoke(c, "skipPrevious", [device_id |-> device_id],
           [url |-> Str("/me/player/previous"),
            method |-> Str("POST"),
            params |-> Obj([device_id |-> device_id])])

getRecentlyPlayed(c, limit, after, before) ==
    /\ pc[c] # "waiting"
    /\ Invoke(c, "getRecentlyPlayed",
           [limit |-> limit, after |-> after, before |-> before],
           [url |-> Str("/me/player/recently-played"),
            params |-> Obj([limit |-> Default(limit, Num(20)),
                            after |-> after,
                            before |-> before])])

skipNext(c, device_id) ==
    /\ pc[c] # "waiting"
    /\ Invoke(c, "skipNext", [device_id |-> device_id],
           [url |-> Str("/me/player/next"),
            method |-> Str("POST"),
            params |-> Obj([device_id |-> device_id])])

pausePlayback(c, device_id) ==
    /\ pc[c] # "waiting"
    /\ Invoke(c, "pausePlayback", [device_id |-> device_id],
           [url |-> Str("/me/player/pause"),
            method |-> Str("PUT"),
            params |-> Obj([device_id |-> device_id])])

setRepeatMode(c, state, device_id) ==
    /\ pc[c] # "waiting"
    /\ Invoke(c, "setRepeatMode", [state |-> state, device_id |-> device_id],
           [url |-> Str("/me/player/repeat"),
            method |-> Str("PUT"),
            params |-> Obj([state |-> Default(state, Str("track")),
                            device_id |-> device_id])])

startPlayback(c, device_id, context_uri, uris, offset, position_ms) ==
    /\ pc[c] # "waiting"
    /\ Invoke(c, "startPlayback",
           [device_id |-> device_id, context_uri |-> context_uri, uris |-> uris,
            offset |-> offset, position_ms |-> position_ms],
           [url |-> Str("/me/player/play"),
            method |-> Str("PUT"),
            params |-> Obj([device_id |-> device_id]),
            data |-> Obj([context_uri |-> context_uri,
                          uris |-> Default(uris, Arr(<<>>)),
                          offset |-> offset,
                          position_ms |-> position_ms])])

seekTo(c, position_ms, device_id) ==
    /\ pc[c] # "waiting"
    /\ Invoke(c, "seekTo", [position_ms |-> position_ms, device_id |-> device_id],
           [url |-> Str("/me/player/seek"),
            method |-> Str("PUT"),
            params |-> Obj([position_ms |-> Default(position_ms, Num(0)),
                            device_id |-> device_id])])

transferPlayback(c, device_ids, play) ==
    /\ pc[c] # "waiting"
    /\ Invoke(c, "transferPlayback", [device_ids |-> device_ids, play |-> play],
           [url |-> Str("/me/player"),
            method |-> Str("PUT"),
            data |-> Obj([device_ids |-> device_ids, play |-> play])])

toggleShuffle(c, state, device_id) ==
    /\ pc[c] # "waiting"
    /\ Invoke(c, "toggleShuffle", [state |-> state, device_id |-> device_id],
           [url |-> Str("/me/player/shuffle"),
            method |-> Str("PUT"),
            params |-> Obj([state |-> state, device_id |-> device_id])])

getAvailableDevices(c) ==
    /\ pc[c] # "waiting"
    /\ Invoke(c, "getAvailableDevices", <<>>,
           [url |-> Str("/me/player/devices")])

(***************************************************************************)
(* User Profile                                                            *)
(***************************************************************************)
getUserProfile(c, user_id) ==
    /\ pc[c] # "waiting"
    /\ Invoke(c, "getUserProfile", [user_id |-> user_id],
           [url |-> Str("/users/" \o ToStr(user_id))])

getCurrentUser(c) ==
    /\ pc[c] # "waiting"
    /\ Invoke(c, "getCurrentUser", <<>>, [url |-> Str("/me")])

(***************************************************************************)
(* Follow API                                                              *)
(***************************************************************************)
getFollowingState(c, type, ids) ==
    /\ pc[c] # "waiting"
    /\ Invoke(c, "getFollowingState", [type |-> type, ids |-> ids],
           [url |-> Str("/me/following/contains"),
            params |-> Obj([type |-> type,
                            ids |-> JoinParam(Default(ids, Arr(<<>>)))])])

checkIfUsersFollowPlaylist(c, playlist_id, ids) ==
    /\ pc[c] # "waiting"
    /\ Invoke(c, "checkIfUsersFollowPlaylist",
           [playlist_id |-> playlist_id, ids |-> ids],
           [url |-> Str("/playlists/" \o ToStr(playlist_id) \o "/followers/contains"),
            params |-> Obj([ids |-> JoinParam(Default(ids, Arr(<<>>)))])])

followUsersOrArtists(c, type, ids) ==
    /\ pc[c] # "waiting"
    /\ Invoke(c, "followUsersOrArtists", [type |-> type, ids |-> ids],
           [url |-> Str("/me/following"),
            method |-> Str("PUT"),
            params |-> Obj([type |-> type,
                            ids |-> JoinParam(Default(ids, Arr(<<>>)))]),
            data |-> Obj([ids |-> Default(ids, Arr(<<>>))])])

followPlaylist(c, playlist_id, visible) ==
    /\ pc[c] # "waiting"
    /\ Invoke(c, "followPlaylist", [playlist_id |-> playlist_id, visible |-> visible],
           [url |-> Str("/playlists/" \o ToStr(playlist_id) \o "/followers"),
            method |-> Str("PUT"),
            data |-> Obj([visible |-> Default(visible, Bool(TRUE))])])

getFollowedArtists(c, type, limit, after) ==
    /\ pc[c] # "waiting"
    /\ Invoke(c, "getFollowedArtists", [type |-> type, limit |-> limit, after |-> after],
           [url |-> Str("/me/following"),
            params |-> Obj([type |-> Default(type, Str("artist")),
                            limit |-> Default(limit, Num(20)),
                            after |-> after])])

unfollowArtistsOrUsers(c, type, ids) ==
    /\ pc[c] # "waiting"
    /\ Invoke(c, "unfollowArtistsOrUsers", [type |-> type, ids |-> ids],
           [url |-> Str("/me/following"),
            method |-> Str("DELETE"),
            params |-> Obj([type |-> type,
                            ids |-> JoinParam(Default(ids, Arr(<<>>)))]),
            data |-> Obj([ids |-> Default(ids, Arr(<<>>))])])

unfollowPlaylist(c, playlist_id) ==
    /\ pc[c] # "waiting"
    /\ Invoke(c, "unfollowPlaylist", [playlist_id |-> playlist_id],
           [url |-> Str("/playlists/" \o ToStr(playlist_id) \o "/followers")])

(***************************************************************************)
(* Search API                                                              *)
(***************************************************************************)
\* q is given by its characters qcs: the argument is the string Text(qcs).
searchItem(c, qcs, type, market, limit, offset, include_external) ==
    /\ pc[c] # "waiting"
    /\ Invoke(c, "searchItem",
           [q |-> Str(Text(qcs)), type |-> type, market |-> market, limit |-> limit,
            offset |-> offset, include_external |-> include_external],
           [url |-> Str("/search"),
            params |-> Obj([q |-> Str(qs_escape(qcs)),
                            type |-> JoinParam(Default(type,
                                                       Arr(<<Str("track"), Str("artist")>>))),
                            market |-> market,
                            limit |-> Default(limit, Num(20)),
                            offset |-> Default(offset, Num(0)),
                            include_external |-> include_external])])

(***************************************************************************)
(* Inputs                                                                  *)
(***************************************************************************)
MaxLen == 2

Elems == {Str("a"), Str("b")}

\* Arrays of at most MaxLen non-empty strings.
Arrays == {Arr(s) : s \in UNION {[1..n -> Elems] : n \in 0..MaxLen}}

OptArrays == Arrays \cup {Undef}

Ids == {Str("abc"), Str("x1")}

OptStr(s) == {Undef, Str(s)}

Limits == {Undef, Num(0), Num(5)}

Offsets == {Undef, Num(0), Num(7)}

Keys == {"popularity", "limit"}

\* The objects a caller may pass for min_, max_ or target_, every value being v.
BoundObjs(v) == {Obj(f) : f \in UNION {[K -> {Num(v)}] : K \in SUBSET Keys}} \cup {Undef}

QChars == {"a", " ", "&"}

QTexts == UNION {[1..n -> QChars] : n \in 0..MaxLen}

AB == Arr(<<Str("a"), Str("b")>>)

\* Scalars a caller may pass where an array is expected.
FalsyScalars == {Num(0), Str(""), Bool(FALSE), Null}

TruthyScalars == {Num(5), Str("abc"), Bool(TRUE)}

Scalars == FalsyScalars \cup TruthyScalars

(***************************************************************************)
(* Two callers on one client, each method on a few arguments               *)
(***************************************************************************)
Call(c) ==
    \/ getCategories(c, Undef, Undef, Undef, Undef)
    \/ \E id \in Ids : getCategory(c, id, Undef, Undef)
    \/ getCategoryPlaylist(c, Str("abc"), Str("DE"), Num(5), Undef)
    \/ getRecommendations(c, AB, Undef, Undef, Undef, Undef,
                          Obj([popularity |-> Num(1)]), Undef, Undef)
    \/ getRecommendationGenres(c)
    \/ getNewReleases(c, Undef, Undef, Undef)
    \/ getFeaturedPlaylists(c, Undef, Undef, Undef, Undef, Undef)
    \/ getArtists(c, AB)
    \/ \E id \in Ids : getArtist(c, id)
    \/ getArtistsAlbums(c, Str("abc"), Undef, Undef, Undef, Undef)
    \/ getArtistsTopTracks(c, Str("abc"), Str("DE"))
    \/ getRelatedArtists(c, Str("abc"))
    \/ getCurrentPlaying(c, Undef)
    \/ \E v \in {Undef, Num(70)} : setVolume(c, v, Str("dev1"))
    \/ getPlaybackInfo(c, Undef)
    \/ skipPrevious(c, Undef)
    \/ getRecentlyPlayed(c, Undef, Undef, Undef)
    \/ skipNext(c, Undef)
    \/ pausePlayback(c, Str("dev1"))
    \/ setRepeatMode(c, Undef, Undef)
    \/ startPlayback(c, Undef, Str("spotify:album:1"), Undef, Undef, Undef)
    \/ seekTo(c, Num(1000), Undef)
    \/ transferPlayback(c, Arr(<<Str("dev1")>>), Bool(TRUE))
    \/ toggleShuffle(c, Bool(TRUE), Undef)
    \/ getAvailableDevices(c)
    \/ getUserProfile(c, Str("abc"))
    \/ getCurrentUser(c)
    \/ getFollowingState(c, Str("artist"), AB)
    \/ checkIfUsersFollowPlaylist(c, Str("abc"), AB)
    \/ followUsersOrArtists(c, Str("user"), AB)
    \/ \E id \in Ids : followPlaylist(c, id, Undef)
    \/ getFollowedArtists(c, Undef, Undef, Undef)
    \/ unfollowArtistsOrUsers(c, Str("artist"), AB)
    \/ \E id \in Ids : unfollowPlaylist(c, id)
    \/ searchItem(c, <<"a", " ", "b">>, Undef, Undef, Undef, Undef, Undef)

Next ==
    \E c \in Callers :
        \/ Call(c)
        \/ \E r \in Responses : AxiosResolve(c, r)
        \/ \E e \in Rejections : AxiosReject(c, e)

Spec == Init /\ [][Next]_vars

(***************************************************************************)
(* One caller, each method over the range of its arguments                 *)
(***************************************************************************)
CallShape(c) ==
    \/ \E country \in OptStr("DE"), locale \in OptStr("de_DE"),
          limit \in Limits, offset \in Offsets :
            getCategories(c, country, locale, limit, offset)
    \/ \E id \in Ids, country \in OptStr("DE"), locale \in OptStr("de_DE") :
            getCategory(c, id, country, locale)
    \/ \E id \in Ids, country \in OptStr("DE"), limit \in Limits, offset \in Offsets :
            getCategoryPlaylist(c, id, country, limit, offset)
    \/ \E x \in OptArrays, limit \in {Undef, Num(0)} :
            getRecommendations(c, x, Arr(<<Str("rock")>>), Undef, limit, Undef,
                               Undef, Undef, Undef)
    \/ \E x \in OptArrays, market \in OptStr("DE") :
            getRecommendations(c, Undef, x, Arr(<<Str("t1")>>), Undef, market,
                               Undef, Undef, Undef)
    \/ \E x \in OptArrays :
            getRecommendations(c, Arr(<<Str("a1"), Str("a2")>>), Undef, x, Undef, Undef,
                               Undef, Undef, Undef)
    \/ \E limit \in {Undef, Num(5)},
          mn \in BoundObjs(1), mx \in BoundObjs(9), tg \in BoundObjs(5) :
            getRecommendations(c, AB, Arr(<<Str("rock")>>), Undef, limit, Str("DE"),
                               mn, mx, tg)
    \/ getRecommendationGenres(c)
    \/ \E country \in OptStr("DE"), limit \in Limits, offset \in Offsets :
            getNewReleases(c, country, limit, offset)
    \/ \E country \in OptStr("DE"), locale \in OptStr("de_DE"),
          timestamp \in OptStr("2014-10-23T09:00:00"),
          limit \in Limits, offset \in Offsets :
            getFeaturedPlaylists(c, country, locale, timestamp, limit, offset)
    \/ \E ids \in OptArrays : getArtists(c, ids)
    \/ \E id \in Ids : getArtist(c, id)
    \/ \E id \in Ids, groups \in OptArrays, market \in OptStr("DE"),
          limit \in Limits, offset \in Offsets :
            getArtistsAlbums(c, id, groups, market, limit, offset)
    \/ \E id \in Ids, market \in OptStr("DE") : getArtistsTopTracks(c, id, market)
    \/ \E id \in Ids : getRelatedArtists(c, id)
    \/ \E market \in OptStr("DE") : getCurrentPlaying(c, market)
    \/ \E v \in {Undef, Num(0), Num(70)}, d \in OptStr("dev1") : setVolume(c, v, d)
    \/ \E market \in OptStr("DE") : getPlaybackInfo(c, market)
    \/ \E d \in OptStr("dev1") : skipPrevious(c, d)
    \/ \E limit \in Limits, after \in {Undef, Num(1484811043)},
          before \in {Undef, Num(1484811043)} :
            getRecentlyPlayed(c, limit, after, before)
    \/ \E d \in OptStr("dev1") : skipNext(c, d)
    \/ \E d \in OptStr("dev1") : pausePlayback(c, d)
    \/ \E st \in {Undef, Str("track"), Str("context"), Str("off")}, d \in OptStr("dev1") :
            setRepeatMode(c, st, d)
    \/ \E d \in OptStr("dev1"), ctx \in OptStr("spotify:album:1"), uris \in OptArrays,
          offset \in {Undef, Obj([position |-> Num(5)])},
          position_ms \in {Undef, Num(0), Num(1000)} :
            startPlayback(c, d, ctx, uris, offset, position_ms)
    \/ \E ms \in {Undef, Num(0), Num(1000)}, d \in OptStr("dev1") : seekTo(c, ms, d)
    \/ \E ds \in Arrays, play \in {Undef, Bool(TRUE), Bool(FALSE)} :
            transferPlayback(c, ds, play)
    \/ \E st \in {Bool(TRUE), Bool(FALSE)}, d \in OptStr("dev1") : toggleShuffle(c, st, d)
    \/ getAvailableDevices(c)
    \/ \E id \in Ids : getUserProfile(c, id)
    \/ getCurrentUser(c)
    \/ \E type \in {Str("artist"), Str("user")}, ids \in OptArrays :
            getFollowingState(c, type, ids)
    \/ \E id \in Ids, ids \in OptArrays : checkIfUsersFollowPlaylist(c, id, ids)
    \/ \E type \in {Str("artist"), Str("user")}, ids \in OptArrays :
            followUsersOrArtists(c, type, ids)
    \/ \E id \in Ids, visible \in {Undef, Bool(TRUE), Bool(FALSE)} :
            followPlaylist(c, id, visible)
    \/ \E type \in {Undef, Str("artist")}, limit \in Limits, after \in OptStr("abc") :
            getFollowedArtists(c, type, limit, after)
    \/ \E type \in {Str("artist"), Str("user")}, ids \in OptArrays :
            unfollowArtistsOrUsers(c, type, ids)
    \/ \E id \in Ids : unfollowPlaylist(c, id)
    \/ \E qcs \in QTexts, type \in OptArrays :
            searchItem(c, qcs, type, Undef, Undef, Undef, Undef)
    \/ \E market \in OptStr("DE"), limit \in Limits, offset \in Offsets,
          ext \in OptStr("audio") :
            searchItem(c, <<"a", " ", "b">>, Undef, market, limit, offset, ext)
    \/ \E x \in Scalars :
            \/ getRecommendations(c, x, AB, Undef, Undef, Undef, Undef, Undef, Undef)
            \/ getRecommendations(c, AB, x, Undef, Undef, Undef, Undef, Undef, Undef)
            \/ getRecommendations(c, Undef, AB, x, Undef, Undef, Undef, Undef, Undef)
            \/ getArtists(c, x)
            \/ getArtistsAlbums(c, Str("abc"), x, Undef, Undef, Undef)
            \/ getFollowingState(c, Str("artist"), x)
            \/ checkIfUsersFollowPlaylist(c, Str("abc"), x)
            \/ followUsersOrArtists(c, Str("artist"), x)
            \/ unfollowArtistsOrUsers(c, Str("user"), x)
            \/ searchItem(c, <<"a">>, x, Undef, Undef, Undef, Undef)

NextShape ==
    \/ CallShape(1)
    \/ \E r \in Responses : AxiosResolve(1, r)
    \/ \E e \in Rejections : AxiosReject(1, e)

SpecShape == Init /\ [][NextShape]_vars

(***************************************************************************)
(* Properties                                                              *)
(***************************************************************************)
InFlight(c) == pc[c] = "waiting"

\* The rejection e carries a response whose body holds an error envelope.
HasEnvelope(e) ==
    /\ "response" \in DOMAIN e.v
    /\ e.v.response.v.data.t = "obj"
    /\ "error" \in DOMAIN e.v.response.v.data.v

\* C1: every call that has been invoked has handed exactly one request to the
\* transport, while it waits and after it ended, whether the transport
\* resolved, answered with an error response or failed: never zero, never a
\* second one (no retry); a caller that has not called has sent none.
C1_OneRequestPerCall ==
    \A c \in Callers :
        /\ pc[c] = "idle" => sent[c] = 0 /\ config[c] = None
        /\ pc[c] = "waiting" => sent[c] = 1 /\ config[c] # None
        /\ pc[c] = "done" => sent[c] = 1 /\ config[c] = None

C1_Witness ==
    \E c \in Callers :
        /\ pc[c] = "done"
        /\ delivered[c].kind = "reject"
        /\ sent[c] = 1

\* C2 as stated: the stored token equals the value given to the constructor,
\* and every request issued targets the base URL with Authorization =
\* "Bearer " followed by that construction-time value.
C2_TokenAsGiven ==
    /\ access_token = given_token
    /\ \A c \in Callers :
        InFlight(c) =>
            /\ config[c].baseURL = Str("https://api.spotify.com/v1")
            /\ config[c].headers.Authorization = Str("Bearer " \o given_token.v)

\* C2 (amended): after any sequence of calls the stored token is the value
\* given to the constructor when that is a non-empty string and null when it
\* was absent or empty, and every request issued targets the base URL with
\* Authorization = "Bearer " followed by the stored token ("Bearer null" for
\* a client built without one); no operation changes the token.
C2_TokenFixed ==
    /\ access_token = (IF given_token \in {Undef, Str("")} THEN Null ELSE given_token)
    /\ \A c \in Callers :
        InFlight(c) =>
            /\ config[c].baseURL = Str("https://api.spotify.com/v1")
            /\ config[c].headers.Authorization =
                   Str("Bearer " \o (IF access_token = Null THEN "null"
                                     ELSE access_token.v))

C2_Witness ==
    \E c, d \in Callers :
        /\ given_token = Str("tokA")
        /\ pc[c] = "done"
        /\ outcome[c].kind = "throw"
        /\ InFlight(d)
        /\ config[d].headers.Authorization = Str("Bearer tokA")

\* C3: when the transport rejected with an error response whose body is
\* {error: E}, the call threw exactly E: no return value, no wrapping.
C3_ThrowsRemoteError ==
    \A c \in Callers :
        (/\ pc[c] = "done"
         /\ delivered[c].kind = "reject"
         /\ HasEnvelope(delivered[c].value))
        => outcome[c] = [kind |-> "throw",
                         value |-> delivered[c].value.v.response.v.data.v.error]

C3_Witness ==
    \E c \in Callers :
        /\ pc[c] = "done"
        /\ delivered[c] = [kind |-> "reject", value |-> HttpError(Obj([error |-> E1]))]
        /\ outcome[c] = [kind |-> "throw", value |-> E1]

\* C4: when the transport failed without a response, or with a response whose
\* body holds no error envelope, the call threw the transport's own failure.
C4_ThrowsRawFailure ==
    \A c \in Callers :
        (/\ pc[c] = "done"
         /\ delivered[c].kind = "reject"
         /\ ~HasEnvelope(delivered[c].value))
        => outcome[c] = [kind |-> "throw", value |-> delivered[c].value]

\* C5: when the transport resolved, the call returned, and what it returned
\* is the response the transport resolved that request with, unmodified.
C5_ReturnsResponse ==
    \A c \in Callers :
        (pc[c] = "done" /\ delivered[c].kind = "resolve")
        => outcome[c] = [kind |-> "return", value |-> delivered[c].value]

C5_Witness ==
    \E c \in Callers :
        /\ pc[c] = "done"
        /\ delivered[c].kind = "resolve"
        /\ outcome[c].kind = "return"
        /\ outcome[c].value.v.status = Num(200)

T(url, verb, params, data) == [url |-> url, verb |-> verb, params |-> params, data |-> data]

\* The request template of each endpoint method for the arguments a: path,
\* verb (GET when the method names none), the names of its query parameters
\* and the names of its body fields ({} where it has none).
Template(m, a) ==
    CASE m = "getCategories" ->
            T("/browse/categories", "GET", {"country", "locale", "limit", "offset"}, {})
      [] m = "getCategory" ->
            T("/browse/categories/" \o a.category_id.v, "GET", {"country", "locale"}, {})
      [] m = "getCategoryPlaylist" ->
            T("/browse/categories/" \o a.category_id.v \o "/playlists", "GET", {"country", "limit", "offset"}, {})
      [] m = "getRecommendations" ->
            T("/recommendations", "GET", {"seed_artists", "seed_genres", "seed_tracks", "limit", "market"}, {})
      [] m = "getRecommendationGenres" ->
            T("/recommendations/available-genre-seeds", "GET", {}, {})
      [] m = "getNewReleases" ->
            T("/browse/new-releases", "GET", {"country", "limit", "offset"}, {})
      [] m = "getFeaturedPlaylists" ->
            T("/browse/featured-playlists", "GET", {"country", "locale", "timestamp", "limit", "offset"}, {})
      [] m = "getArtists" ->
            T("/artists", "GET", {"ids"}, {})
      [] m = "getArtist" ->
            T("/artists/" \o a.id.v, "GET", {}, {})
      [] m = "getArtistsAlbums" ->
            T("/artists/" \o a.id.v \o "/albums", "GET", {"include_groups", "market", "limit", "offset"}, {})
      [] m = "getArtistsTopTracks" ->
            T("/artists/" \o a.id.v \o "/top-tracks", "GET", {"market"}, {})
      [] m = "getRelatedArtists" ->
            T("/artists/" \o a.id.v \o "/related-artists", "GET", {}, {})
      [] m = "getCurrentPlaying" ->
            T("/me/player/currently-playing", "GET", {"market"}, {})
      [] m = "setVolume" ->
            T("/me/player/volume", "PUT", {"volume_percent", "device_id"}, {})
      [] m = "getPlaybackInfo" ->
            T("/me/player", "GET", {"market"}, {})
      [] m = "skipPrevious" ->
            T("/me/player/previous", "POST", {"device_id"}, {})
      [] m = "getRecentlyPlayed" ->
            T("/me/player/recently-played", "GET", {"limit", "after", "before"}, {})
      [] m = "skipNext" ->
            T("/me/player/next", "POST", {"device_id"}, {})
      [] m = "pausePlayback" ->
            T("/me/player/pause", "PUT", {"device_id"}, {})
      [] m = "setRepeatMode" ->
            T("/me/player/repeat", "PUT", {"state", "device_id"}, {})
      [] m = "startPlayback" ->
            T("/me/player/play", "PUT", {"device_id"}, {"context_uri", "uris", "offset", "position_ms"})
      [] m = "seekTo" ->
            T("/me/player/seek", "PUT", {"position_ms", "device_id"}, {})
      [] m = "transferPlayback" ->
            T("/me/player", "PUT", {}, {"device_ids", "play"})
      [] m = "toggleShuffle" ->
            T("/me/player/shuffle", "PUT", {"state", "device_id"}, {})
      [] m = "getAvailableDevices" ->
            T("/me/player/devices", "GET", {}, {})
      [] m = "getUserProfile" ->
            T("/users/" \o a.user_id.v, "GET", {}, {})
      [] m = "getCurrentUser" ->
            T("/me", "GET", {}, {})
      [] m = "getFollowingState" ->
            T("/me/following/contains", "GET", {"type", "ids"}, {})
      [] m = "checkIfUsersFollowPlaylist" ->
            T("/playlists/" \o a.playlist_id.v \o "/followers/contains", "GET", {"ids"}, {})
      [] m = "followUsersOrArtists" ->
            T("/me/following", "PUT", {"type", "ids"}, {"ids"})
      [] m = "followPlaylist" ->
            T("/playlists/" \o a.playlist_id.v \o "/followers", "PUT", {}, {"visible"})
      [] m = "getFollowedArtists" ->
            T("/me/following", "GET", {"type", "limit", "after"}, {})
      [] m = "unfollowArtistsOrUsers" ->
            T("/me/following", "DELETE", {"type", "ids"}, {"ids"})
      [] m = "unfollowPlaylist" ->
            T("/playlists/" \o a.playlist_id.v \o "/followers", "GET", {}, {})
      [] m = "searchItem" ->
            T("/search", "GET", {"q", "type", "market", "limit", "offset", "include_external"}, {})

\* The parameters whose query value is a serialised form of the argument: the
\* comma-joined arrays and the escaped search query.
Serialised(m, k) ==
    \/ k \in {"seed_artists", "seed_genres", "seed_tracks", "ids", "include_groups", "q"}
    \/ m = "searchItem" /\ k = "type"

C7_UnfollowPlaylistDeletes ==
    \A c \in Callers :
        (InFlight(c) /\ method[c] = "unfollowPlaylist") =>
            /\ config[c].url = Str("/playlists/" \o args[c].playlist_id.v \o "/followers")
            /\ config[c].method = Str("DELETE")

\* The strings of s, in order, with "," between neighbours.
RECURSIVE CommaJoined(_)
CommaJoined(s) ==
    IF Len(s) = 0 THEN ""
    ELSE IF Len(s) = 1 THEN s[1].v
    ELSE CommaJoined(SubSeq(s, 1, Len(s) - 1)) \o "," \o s[Len(s)].v

\* The array-valued parameters of method m that go into the query.
ArrayParams(m) ==
    CASE m = "getRecommendations" -> {"seed_artists", "seed_genres", "seed_tracks"}
      [] m \in {"getArtists", "getFollowingState", "checkIfUsersFollowPlaylist",
                "followUsersOrArtists", "unfollowArtistsOrUsers"} -> {"ids"}
      [] m = "getArtistsAlbums" -> {"include_groups"}
      [] m = "searchItem" -> {"type"}
      [] OTHER -> {}

\* C8 as stated: an array of non-empty strings is sent as its elements joined
\* by "," in order, and an empty or omitted array gives the empty string, for
\* every array-valued parameter.
C8_JoinedOrEmpty ==
    \A c \in Callers :
        InFlight(c) =>
            \A k \in ArrayParams(method[c]) :
                LET x == args[c][k]
                    sentv == config[c].params.v[k]
                IN /\ x.t = "arr" => sentv = Str(CommaJoined(x.v))
                   /\ (x = Undef \/ x = Arr(<<>>)) => sentv = Str("")

\* The joined default of an array-valued parameter.
JoinedDefault(k) ==
    CASE k = "include_groups" -> "single,appears_on"
      [] k = "type" -> "track,artist"
      [] OTHER -> ""

\* C8 (amended): an array of non-empty strings is sent as its elements joined
\* by "," in their original order, none dropped or duplicated (["a","b"]
\* gives "a,b"), and an empty array gives the empty string; an omitted array
\* gives the joined default of the parameter: the empty string for
\* seed_artists, seed_genres, seed_tracks and ids, "single,appears_on" for
\* include_groups and "track,artist" for the search type.
C8_JoinedOrDefault ==
    \A c \in Callers :
        InFlight(c) =>
            \A k \in ArrayParams(method[c]) :
                LET x == args[c][k]
                    sentv == config[c].params.v[k]
                IN /\ x.t = "arr" => sentv = Str(CommaJoined(x.v))
                   /\ x = Arr(<<>>) => sentv = Str("")
                   /\ x = Arr(<<Str("a"), Str("b")>>) => sentv = Str("a,b")
                   /\ x = Arr(<<Str("b"), Str("a")>>) => sentv = Str("b,a")
                   /\ x = Undef => sentv = Str(JoinedDefault(k))

C8_Witness ==
    \E c \in Callers :
        /\ InFlight(c)
        /\ method[c] = "getArtistsAlbums"
        /\ args[c].include_groups = Arr(<<Str("b"), Str("a")>>)
        /\ config[c].params.v.include_groups = Str("b,a")

\* The entries of a bounds argument: none when it was omitted.
Entries(x) == IF x = Undef THEN <<>> ELSE x.v

BaseKeys == {"seed_artists", "seed_genres", "seed_tracks", "limit", "market"}

\* C9: the query parameters of getRecommendations are exactly the five base
\* keys plus min_k, max_k and target_k for every entry (k, v) of min_, max_
\* and target_, each with value v: no entry is lost (the keys are as many as
\* the base keys and the entries together), and no base key is overwritten.
C9_FlattenedBounds ==
    \A c \in Callers :
        (InFlight(c) /\ method[c] = "getRecommendations") =>
            LET a == args[c]
                p == config[c].params.v
                mn == Entries(a.min_)
                mx == Entries(a.max_)
                tg == Entries(a.target_)
            IN /\ DOMAIN p = BaseKeys \cup {"min_" \o k : k \in DOMAIN mn}
                                      \cup {"max_" \o k : k \in DOMAIN mx}
                                      \cup {"target_" \o k : k \in DOMAIN tg}
               /\ Cardinality(DOMAIN p) = 5 + Cardinality(DOMAIN mn)
                                            + Cardinality(DOMAIN mx)
                                            + Cardinality(DOMAIN tg)
               /\ \A k \in DOMAIN mn : p["min_" \o k] = mn[k]
               /\ \A k \in DOMAIN mx : p["max_" \o k] = mx[k]
               /\ \A k \in DOMAIN tg : p["target_" \o k] = tg[k]
               /\ \A k \in {"seed_artists", "seed_genres", "seed_tracks"} :
                    /\ a[k] = Undef => p[k] = Str("")
                    /\ a[k].t = "arr" => p[k] = Str(CommaJoined(a[k].v))
               /\ p.limit = (IF a.limit = Undef THEN Num(20) ELSE a.limit)
               /\ p.market = a.market
               /\ a.min_ = Obj([popularity |-> Num(1)]) => p.min_popularity = Num(1)

C9_Witness ==
    \E c \in Callers :
        /\ InFlight(c)
        /\ method[c] = "getRecommendations"
        /\ args[c].min_ = Obj([popularity |-> Num(1), limit |-> Num(1)])
        /\ args[c].max_ = Obj([popularity |-> Num(9)])
        /\ args[c].target_ = Obj([limit |-> Num(5)])
        /\ args[c].limit = Num(5)
        /\ config[c].params.v.min_limit = Num(1)
        /\ config[c].params.v.max_popularity = Num(9)
        /\ config[c].params.v.target_limit = Num(5)
        /\ config[c].params.v.limit = Num(5)

\* The documented default of parameter k of method m, or None: limit and
\* offset on every method that has them (startPlayback's offset, an object,
\* has none), and the defaults of single methods.
DocumentedDefault(m, k) ==
    CASE k = "limit" -> Num(20)
      [] k = "offset" /\ m # "startPlayback" -> Num(0)
      [] k = "volume_percent" -> Num(50)
      [] k = "position_ms" /\ m = "seekTo" -> Num(0)
      [] k = "state" /\ m = "setRepeatMode" -> Str("track")
      [] k = "type" /\ m = "getFollowedArtists" -> Str("artist")
      [] k = "visible" -> Bool(TRUE)
      [] k = "include_groups" -> Str("single,appears_on")
      [] k = "type" /\ m = "searchItem" -> Str("track,artist")
      [] OTHER -> None

\* What the request carries for parameter k: query parameter or body field.
Carried(r, k) ==
    IF r.params # Null /\ k \in DOMAIN r.params.v THEN r.params.v[k]
    ELSE IF r.data # Null /\ k \in DOMAIN r.data.v THEN r.data.v[k]
    ELSE None

\* C10: a parameter with a documented default that the caller omitted is
\* sent with the default (limit 20, offset 0, volume_percent 50, position_ms
\* 0, repeat state "track", follow type "artist", visible true,
\* include_groups "single,appears_on", search type "track,artist"); a value
\* the caller supplied, falsy ones such as 0 and false included, is sent in
\* place of the default (an array in its comma-joined form; a scalar passed
\* where an array is expected is the case of C13).
C10_Defaults ==
    \A c \in Callers :
        InFlight(c) =>
            \A k \in DOMAIN args[c] :
                LET d == DocumentedDefault(method[c], k)
                    x == args[c][k]
                IN d # None =>
                    /\ x = Undef => Carried(config[c], k) = d
                    /\ (x # Undef /\ k \notin ArrayParams(method[c]))
                        => Carried(config[c], k) = x
                    /\ x.t = "arr" => Carried(config[c], k) = Str(CommaJoined(x.v))

C10_Witness ==
    \E c \in Callers :
        /\ InFlight(c)
        /\ method[c] = "getCategories"
        /\ args[c].limit = Num(0)
        /\ args[c].offset = Undef
        /\ config[c].params.v.limit = Num(0)
        /\ config[c].params.v.offset = Num(0)

\* The whole of caller c's call: where it is, its arguments, its request in
\* flight and what it got.
CallOf(c) == <<pc[c], method[c], args[c], config[c], sent[c], delivered[c], outcome[c]>>

\* The request in flight for c is the one its own method and arguments give.
OwnRequest(c) ==
    LET t == Template(method[c], args[c])
    IN /\ sent[c] = 1
       /\ config[c].url = Str(t.url)
       /\ config[c].method = Str(t.verb)
       /\ \A k \in t.params :
            (args[c][k] # Undef /\ ~Serialised(method[c], k))
            => config[c].params.v[k] = args[c][k]
       /\ \A k \in t.data : args[c][k] # Undef => config[c].data.v[k] = args[c][k]

\* What c got is what the transport settled c's own request with.
OwnOutcome(c) ==
    /\ sent[c] = 1
    /\ delivered[c].kind = "resolve"
        => outcome[c] = [kind |-> "return", value |-> delivered[c].value]
    /\ delivered[c].kind = "reject" => outcome[c].kind = "throw"
    /\ (delivered[c].kind = "reject" /\ HasEnvelope(delivered[c].value))
        => outcome[c].value = delivered[c].value.v.response.v.data.v.error

\* C11: with two calls on one client overlapping, under every interleaving of
\* their issue and completion steps, each call has issued its own single
\* request, built from its own method and arguments; each caller gets the
\* response or error its own request was settled with; and a step of one call
\* (its issue, its success or its failure) changes nothing of the other call.
C11_Independent ==
    /\ [](\A c \in Callers :
            /\ InFlight(c) => OwnRequest(c)
            /\ pc[c] = "done" => OwnOutcome(c))
    /\ [][\A c, d \in Callers :
            (c # d /\ CallOf(c)' # CallOf(c)) => CallOf(d)' = CallOf(d)]_vars

C11_Witness ==
    /\ InFlight(1)
    /\ InFlight(2)
    /\ method[1] = "getArtist"
    /\ method[2] = "getArtist"
    /\ args[1].id = Str("abc")
    /\ args[2].id = Str("x1")
    /\ config[1].url = Str("/artists/abc")
    /\ config[2].url = Str("/artists/x1")

\* C12: a client constructed with no access token (absent or empty) exists:
\* construction wrote its notice and stored null, and nothing more; every
\* caller that awaits nothing can make an endpoint call, and every call made
\* has handed its one request to the transport, carrying "Bearer null".
C12_NoTokenStillCalls ==
    given_token \in {Undef, Str("")} =>
        /\ access_token = Null
        /\ notice
        /\ \A c \in Callers :
            /\ pc[c] # "waiting" =>
                /\ ENABLED getCurrentUser(c)
                /\ ENABLED getArtist(c, Str("abc"))
                /\ ENABLED setVolume(c, Num(70), Str("dev1"))
            /\ pc[c] # "idle" => sent[c] = 1
            /\ InFlight(c) =>
                /\ config[c] # None
                /\ config[c].headers.Authorization = Str("Bearer null")
            /\ pc[c] = "done" => delivered[c] # None

C12_Witness ==
    \E c, d \in Callers :
        /\ given_token = Str("")
        /\ access_token = Null
        /\ notice
        /\ pc[c] = "done"
        /\ delivered[c].kind = "resolve"
        /\ InFlight(d)
        /\ sent[d] = 1

\* The string form of a scalar.
ScalarText(x) ==
    CASE x = Num(5) -> "5"
      [] x = Bool(TRUE) -> "true"
      [] x.t = "str" -> x.v

\* C13 as stated: a falsy scalar (0, "", false, null) passed directly for an
\* array-valued parameter is dropped: the query value is the empty string,
\* the call is made, and no part of the request carries the scalar under the
\* parameter's name; a truthy scalar is sent as its own string form.
C13_ScalarDropped ==
    \A c \in Callers :
        InFlight(c) =>
            \A k \in ArrayParams(method[c]) :
                LET x == args[c][k]
                    r == config[c]
                IN /\ x \in FalsyScalars =>
                        /\ sent[c] = 1
                        /\ r.params.v[k] = Str("")
                        /\ r.data # Null /\ k \in DOMAIN r.data.v => r.data.v[k] # x
                   /\ x \in TruthyScalars => r.params.v[k] = Str(ScalarText(x))

\* C13 (amended): a falsy scalar (0, "", false, null) passed directly for an
\* array-valued query parameter is dropped from the query: the query value
\* sent is the empty string and the call is made; a truthy scalar is sent as
\* its own string form. followUsersOrArtists and unfollowArtistsOrUsers also
\* put ids into the request body, and there the scalar is sent as given.
C13_ScalarDroppedFromQuery ==
    \A c \in Callers :
        InFlight(c) =>
            \A k \in ArrayParams(method[c]) :
                LET x == args[c][k]
                    r == config[c]
                IN /\ x \in FalsyScalars =>
                        /\ sent[c] = 1
                        /\ r.params.v[k] = Str("")
                   /\ x \in TruthyScalars => r.params.v[k] = Str(ScalarText(x))
                   /\ (x \in Scalars /\ method[c] \in {"followUsersOrArtists",
                                                       "unfollowArtistsOrUsers"})
                        => r.data = Obj([ids |-> x])
                   /\ (x \in Scalars /\ method[c] \notin {"followUsersOrArtists",
                                                          "unfollowArtistsOrUsers"})
                        => r.data = Null

C13_Witness ==
    \E c \in Callers :
        /\ InFlight(c)
        /\ method[c] = "getFollowingState"
        /\ args[c].ids = Num(0)
        /\ config[c].params.v.ids = Str("")
        /\ sent[c] = 1

====
